---- MODULE Spec2Model ----
(***************************************************************************)
(* Model of example/pglogrepl_demo/main.go: a logical-replication consumer *)
(* loop (main) feeding raw WAL buffers through the buffered channel        *)
(* walDataCh to a batcher goroutine, which decodes them (processV2) and    *)
(* applies inserts to the target in grouped writes (applyContext).         *)
(*                                                                         *)
(* Time is discrete.  Instead of absolute instants the model keeps, for    *)
(* every instant the program stores, its distance to "now":                *)
(*   applyCtx.sinceLastCommit = time.Since(a.lastCommitTime), saturated    *)
(*                              one unit above FlushThreshold;             *)
(*   applyCtx.timer.left      = time left until a.timer expires;           *)
(*   standbyIn                = nextStandbyMessageDeadline - now,          *)
(*                              -1 once the deadline has passed.           *)
(* Tick advances the batcher's two by one unit, StandbyTick the consumer    *)
(* loop's deadline: the goroutines share no instant.                       *)
(*                                                                         *)
(* time.Timer: a build with the pre-Go-1.23 timer channel keeps a value    *)
(* already delivered to timer.C across Stop and Reset; a Go 1.23 channel   *)
(* drops it.  legacyTimerChan, chosen in Init, is the build's semantics.   *)
(***************************************************************************)
EXTENDS Integers, Sequences, FiniteSets, TLC

\* ------------------------------------------------------------------ bounds
\* Data messages the source sends in one exploration.
MaxMsgs == 5
\* Capacity of walDataCh.  The program's capacity is 1024 (main.go:134); the
\* model scales it down so that a full queue is reachable within MaxMsgs.
WalDataChCap == 2
\* Restarts of the process after a fatal exit.
MaxRestarts == 1

\* ------------------------------------------------------- program constants
\* 2 * time.Second in applyContext.commit and in time.NewTimer, in time units.
FlushThreshold == 2
\* standbyMessageTimeout := time.Second * 10
StandbyMessageTimeout == 10

VARIABLES
  src,             \* the source server: WAL position and protocol state
  pc,              \* consumer loop: "recv" (in ReceiveMessage) or "send" (blocked on walDataCh <-)
  xld,             \* the XLogData being handled by the consumer loop
  clientXLogPos,   \* main: tracked replication position
  standbyIn,       \* main: nextStandbyMessageDeadline, relative to now
  lastStatus,      \* WALWritePosition of the last standby status update sent (-1: none)
  walDataCh,       \* the buffered channel between the two goroutines
  applyCtx,        \* the applyContext, timer included
  relationsV2,     \* relation cache of processV2
  inStream,        \* streaming-mode flag handed to ParseV2
  fatal,           \* the process has exited through log.Fatal*
  run,             \* number of restarts so far
  legacyTimerChan, \* time.Timer channel semantics of the build (asynctimerchan)
  originMarker,    \* target: durable replication-origin progress
  lastGroup,       \* target: the grouped write executed most recently in this run
  startLSN,        \* the start position handed to StartReplication
  committed,       \* history: the CommitMessages the batcher processed: [tx, lsn, age]
  streamCommitted, \* history: the streamed transactions whose StreamCommit it processed
  window,          \* history: transactions committed since the last flush without
                   \*          flushing, each with the number of operations it queued
  txOps,           \* history: operations queued by the transaction begun last
  lastDef,         \* history: version of the RelationMessage processed last, per relation
  handled          \* history: ordinal of the last buffer taken from walDataCh

loopVars == <<pc, xld, clientXLogPos, standbyIn, lastStatus>>
batcherVars == <<applyCtx, relationsV2, inStream>>
procVars == <<fatal, run, legacyTimerChan, startLSN>>
targetVars == <<originMarker, lastGroup>>
histVars == <<committed, streamCommitted, window, txOps, lastDef, handled>>
vars == <<src, walDataCh, loopVars, batcherVars, procVars, targetVars, histVars>>

\* --------------------------------------------------------------- the source
RelIds == {1, 2}
\* Two definitions of each relation: the second renames a column.
Schema(r, ver) ==
  [ns |-> "public", name |-> IF r = 1 THEN "t1" ELSE "t2",
   cols |-> IF ver = 1 THEN <<"id", "name">> ELSE <<"id", "title">>]
\* The relation definitions the source sends: <<relation id, version>>.
RelDefs == {<<1, 1>>, <<1, 2>>, <<2, 1>>}
\* The rows the source inserts: <<relation id, column kinds>>, the kinds being
\* 'n' null, 'u' unchanged toast, 't' text.
Rows == {<<1, <<"n", "t">>>>, <<1, <<"t", "u">>>>, <<2, <<"n", "t">>>>}

NoMsg == [type |-> "none", lsn |-> 0, tx |-> 0, rel |-> 0, ver |-> 0, kinds |-> <<>>, xidp |-> FALSE]
Msg(type, lsn, tx, rel, ver, kinds, xidp) ==
  [type |-> type, lsn |-> lsn, tx |-> tx, rel |-> rel, ver |-> ver, kinds |-> kinds, xidp |-> xidp]

\* The logical messages pgoutput (proto_version 2, streaming on) may send next.
\* A message's lsn is its ordinal in the stream; a transaction is named by the
\* ordinal of its Begin (or first StreamStart).  Row and relation messages sent
\* inside a stream segment carry the xid prefix (xidp).
NextMsgs(s) ==
  LET l == s.lsn + 1 IN
  CASE s.mode = "idle" ->
         {Msg("Begin", l, l, 0, 0, <<>>, FALSE)}
         \cup {Msg("StreamStart", l, IF s.stx = 0 THEN l ELSE s.stx, 0, 0, <<>>, FALSE)}
         \cup (IF s.stx # 0
               THEN {Msg("StreamCommit", l, s.stx, 0, 0, <<>>, FALSE),
                     Msg("StreamAbort", l, s.stx, 0, 0, <<>>, FALSE)}
               ELSE {})
    [] s.mode = "txn" ->
         {Msg("Commit", l, s.tx, 0, 0, <<>>, FALSE)}
         \cup {Msg("Relation", l, s.tx, d[1], d[2], <<>>, FALSE) : d \in RelDefs}
         \cup {Msg("Insert", l, s.tx, w[1], 0, w[2], FALSE) : w \in Rows}
    [] s.mode = "stream" ->
         {Msg("StreamStop", l, s.stx, 0, 0, <<>>, FALSE)}
         \cup {Msg("Relation", l, s.stx, d[1], d[2], <<>>, TRUE) : d \in RelDefs}
         \cup {Msg("Insert", l, s.stx, w[1], 0, w[2], TRUE) : w \in Rows}

SrcAfter(s, m) ==
  CASE m.type = "Begin" -> [s EXCEPT !.lsn = m.lsn, !.mode = "txn", !.tx = m.tx]
    [] m.type = "Commit" -> [s EXCEPT !.lsn = m.lsn, !.mode = "idle", !.tx = 0]
    [] m.type = "StreamStart" -> [s EXCEPT !.lsn = m.lsn, !.mode = "stream", !.stx = m.tx]
    [] m.type = "StreamStop" -> [s EXCEPT !.lsn = m.lsn, !.mode = "idle"]
    [] m.type \in {"StreamCommit", "StreamAbort"} -> [s EXCEPT !.lsn = m.lsn, !.stx = 0]
    [] OTHER -> [s EXCEPT !.lsn = m.lsn]

\* ---------------------------------------------------------------- time.Timer
\* timer.Stop(): the timer no longer fires.  With the legacy channel a value
\* already sent to timer.C stays there; with the Go 1.23 channel it is dropped.
TimerStop(t) ==
  [t EXCEPT !.armed = FALSE, !.left = 0, !.c = IF legacyTimerChan THEN t.c ELSE FALSE]

\* timer.Reset(d): fire d from now; a value already in timer.C as for Stop.
TimerReset(t, d) ==
  [t EXCEPT !.armed = TRUE, !.left = d, !.c = IF legacyTimerChan THEN t.c ELSE FALSE]

\* time.NewTimer(d)
NewTimer(d) == [armed |-> TRUE, left |-> d, c |-> FALSE]

\* -------------------------------------------------------------- applyContext
OriginOp(lsn, ts) == [kind |-> "origin", lsn |-> lsn, ts |-> ts]

\* applyContext.queue
queue(a, op) == [a EXCEPT !.batch = Append(a.batch, op)]

\* A begin that leaves the timer running.
beginNoStop(a) == [a EXCEPT !.txnInProgress = TRUE]

\* applyContext.begin
begin(a) == [a EXCEPT !.txnInProgress = TRUE, !.timer = TimerStop(a.timer)]

\* Whether a call of flush executes a grouped write (the batch is not empty).
FlushExecutes(a) == Len(a.batch) # 0

\* The grouped write flush sends: the batch with the origin operation queued last.
FlushGroup(a) == Append(a.batch, OriginOp(a.commitLSN, a.commitTime))

\* Whether SendBatch(...).Close() succeeds: ok is what the target and the
\* connection allow; a statement queued with fewer arguments than it has
\* placeholders is rejected whatever they allow.
SendBatchOK(a, ok) ==
  /\ ok
  /\ \A i \in 1..Len(a.batch) :
        a.batch[i].kind = "insert" => a.batch[i].placeholders = Len(a.batch[i].vals)

\* A flush that resets the batch and the last-flush time whatever the outcome.
flushResetsOnFailure(a, ok) ==
  IF Len(a.batch) = 0 THEN a
  ELSE [a EXCEPT !.batch = <<>>, !.sinceLastCommit = 0]

\* A flush that sends the origin operation for an empty batch as well.
flushEmptyToo(a, ok) ==
  IF ~SendBatchOK(a, ok) THEN [a EXCEPT !.batch = FlushGroup(a)]
  ELSE [a EXCEPT !.batch = <<>>, !.sinceLastCommit = 0]

\* applyContext.flush
flush(a, ok) ==
  IF Len(a.batch) = 0 THEN a
  ELSE IF ~SendBatchOK(a, ok) THEN [a EXCEPT !.batch = FlushGroup(a)]
  ELSE [a EXCEPT !.batch = <<>>, !.sinceLastCommit = 0]

\* An immediate-flush branch taken at the threshold already.
CommitFlushesAtThreshold(a) == a.sinceLastCommit >= FlushThreshold

\* Whether commit takes the immediate-flush branch.
CommitFlushes(a) == a.sinceLastCommit > FlushThreshold

\* A commit that leaves the timer alone when it defers the flush.
commitNoReset(a, commitLSN, commitTime, ok) ==
  LET b == [a EXCEPT !.commitLSN = commitLSN, !.commitTime = commitTime,
                     !.txnInProgress = FALSE]
  IN IF CommitFlushes(b) THEN flush(b, ok) ELSE b

\* applyContext.commit
commit(a, commitLSN, commitTime, ok) ==
  LET b == [a EXCEPT !.commitLSN = commitLSN, !.commitTime = commitTime,
                     !.txnInProgress = FALSE]
  IN IF CommitFlushes(b) THEN flush(b, ok)
     ELSE [b EXCEPT !.timer = TimerReset(b.timer, FlushThreshold)]

\* ----------------------------------------------------------------- processV2
NoRel == [ns |-> "", name |-> "", cols |-> <<>>]

\* A cache in which the first definition of a relation stays.
RelationPutIfAbsent(rels, m) ==
  IF rels[m.rel] = NoRel THEN [rels EXCEPT ![m.rel] = Schema(m.rel, m.ver)] ELSE rels

\* relations[logicalMsg.RelationID] = logicalMsg
RelationPut(rels, m) == [rels EXCEPT ![m.rel] = Schema(m.rel, m.ver)]

\* _, ok := relations[logicalMsg.RelationID]
RelationKnown(rels, r) == rels[r] # NoRel

\* The column list of the INSERT: one name per tuple column.
InsertColumns(rel, kinds) == [i \in 1..Len(kinds) |-> rel.cols[i]]

\* The positional placeholders $1..$k of the VALUES list.
InsertPlaceholders(kinds) == Len(kinds)

\* vals: nil for 'n', nothing for 'u', the decoded text for 't'.
RECURSIVE InsertVals(_)
InsertVals(kinds) ==
  IF kinds = <<>> THEN <<>>
  ELSE LET rest == InsertVals(Tail(kinds)) IN
       CASE Head(kinds) = "n" -> <<"nil">> \o rest
         [] Head(kinds) = "u" -> rest
         [] OTHER -> <<"text">> \o rest

\* The write operation queued for an InsertMessageV2.
InsertOp(rel, m) ==
  [kind |-> "insert", table |-> <<rel.ns, rel.name>>,
   cols |-> InsertColumns(rel, m.kinds),
   placeholders |-> InsertPlaceholders(m.kinds),
   vals |-> InsertVals(m.kinds),
   \* history: the transaction, the relation, the tuple's column kinds, the
   \* relation's columns
   tx |-> m.tx, rel |-> m.rel, tuple |-> m.kinds, schema |-> rel.cols,
   \* ... the buffer it was decoded from, and whether that was a streamed one
   lsn |-> m.lsn, streamed |-> m.xidp]

\* pglogrepl.ParseV2(walData, *inStream) fails when the buffer's framing (xid
\* prefix or not) is not the one the flag announces.
ParseOK(m, flag) == m.type \in {"Relation", "Insert"} => m.xidp = flag

NoGroup ==
  [n |-> 0, ops |-> <<>>, by |-> "none", committed |-> {}, streamCommitted |-> {},
   window |-> {}]

\* ------------------------------------------------------------------- Init
InitCtx ==
  [batch |-> <<>>, sinceLastCommit |-> 0, commitLSN |-> 0, commitTime |-> 0,
   txnInProgress |-> FALSE, timer |-> NewTimer(FlushThreshold)]

Init ==
  /\ src = [lsn |-> 0, mode |-> "idle", tx |-> 0, stx |-> 0]
  /\ pc = "recv"
  /\ xld = [walStart |-> 0, walData |-> NoMsg]
  /\ clientXLogPos = 0
  /\ standbyIn = StandbyMessageTimeout
  /\ lastStatus = -1
  /\ walDataCh = <<>>
  /\ applyCtx = InitCtx
  /\ relationsV2 = [r \in RelIds |-> NoRel]
  /\ inStream = FALSE
  /\ fatal = FALSE
  /\ run = 0
  /\ legacyTimerChan \in BOOLEAN
  /\ originMarker = [lsn |-> 0, ts |-> 0]
  /\ lastGroup = NoGroup
  /\ startLSN = 0
  /\ committed = {}
  /\ streamCommitted = {}
  /\ window = {}
  /\ txOps = 0
  /\ lastDef = [r \in RelIds |-> 0]
  /\ handled = 0

\* ------------------------------------------------------------ consumer loop
\* A position that follows every message.
AdvancePosAlways(pos, l) == l

\* if pkm.ServerWALEnd > clientXLogPos { clientXLogPos = pkm.ServerWALEnd }
\* and the same for xld.WALStart.
AdvancePos(pos, l) == IF l > pos THEN l ELSE pos

\* Top of the for loop: time.Now().After(nextStandbyMessageDeadline) sends a
\* standby status update and moves the deadline to now + standbyMessageTimeout.
StatusDue(d) == d < 0
LoopTopDeadline(d) == IF StatusDue(d) THEN StandbyMessageTimeout ELSE d
LoopTopStatus(d, pos, last) == IF StatusDue(d) THEN pos ELSE last

\* One iteration ends and the next one runs up to ReceiveMessage.
LoopTop(d) ==
  /\ standbyIn' = LoopTopDeadline(d)
  /\ lastStatus' = LoopTopStatus(d, clientXLogPos', lastStatus)

\* A send that puts the buffer in front of the queued ones.
ChanSendFront(ch, buf) == <<buf>> \o ch

\* walDataCh <- walDataCp
ChanSend(ch, buf) == Append(ch, buf)
\* A channel without a capacity.
ChanNeverFull(ch) == FALSE

\* A send blocks while the channel holds cap(walDataCh) buffers.
ChanFull(ch) == Len(ch) >= WalDataChCap

\* A keepalive that ignores the reply request.
ReplyDeadlineIgnored(reply, d) == d

\* if pkm.ReplyRequested { nextStandbyMessageDeadline = time.Time{} }: the
\* deadline has passed whatever the clock says.
ReplyDeadline(reply, d) == IF reply THEN -1 ELSE d

\* case pglogrepl.PrimaryKeepaliveMessageByteID
RecvKeepalive(l, reply) ==
  /\ ~fatal /\ pc = "recv"
  /\ clientXLogPos' = AdvancePos(clientXLogPos, l)
  /\ LoopTop(ReplyDeadline(reply, standbyIn))
  /\ UNCHANGED <<src, walDataCh, pc, xld, batcherVars, procVars, targetVars, histVars>>

\* case pglogrepl.XLogDataByteID, up to the channel send; the rest of the
\* iteration follows at once when the channel has room.
RecvXLogData(m, ws) ==
  /\ ~fatal /\ pc = "recv"
  /\ src' = SrcAfter(src, m)
  /\ xld' = [walStart |-> ws, walData |-> m]
  /\ IF ChanFull(walDataCh)
     THEN /\ pc' = "send"
          /\ UNCHANGED <<walDataCh, clientXLogPos, standbyIn, lastStatus>>
     ELSE /\ walDataCh' = ChanSend(walDataCh, m)
          /\ clientXLogPos' = AdvancePos(clientXLogPos, ws)
          /\ LoopTop(standbyIn)
          /\ pc' = "recv"
  /\ UNCHANGED <<batcherVars, procVars, targetVars, histVars>>

\* The blocked channel send completes once the batcher has taken a buffer.
SendUnblocked ==
  /\ ~fatal /\ pc = "send"
  /\ ~ChanFull(walDataCh)
  /\ walDataCh' = ChanSend(walDataCh, xld.walData)
  /\ clientXLogPos' = AdvancePos(clientXLogPos, xld.walStart)
  /\ LoopTop(standbyIn)
  /\ pc' = "recv"
  /\ UNCHANGED <<src, xld, batcherVars, procVars, targetVars, histVars>>

\* ReceiveMessage returns a timeout once the deadline is reached: continue.
RecvTimeout ==
  /\ ~fatal /\ pc = "recv"
  /\ standbyIn <= 0
  /\ clientXLogPos' = clientXLogPos
  /\ LoopTop(standbyIn)
  /\ UNCHANGED <<src, walDataCh, pc, xld, batcherVars, procVars, targetVars, histVars>>

\* ErrorResponse, or a receive error that is no timeout: log.Fatal.
RecvFatal ==
  /\ ~fatal /\ pc = "recv"
  /\ fatal' = TRUE
  /\ UNCHANGED <<src, walDataCh, loopVars, batcherVars, run, legacyTimerChan, startLSN,
                 targetVars, histVars>>

\* ------------------------------------------------------------------ batcher
\* The outcome of a flush: the context after it, whether the process died,
\* and the grouped write the target executed (<<>> when none was).
FlushResult(a, ok, by) ==
  [ctx |-> flush(a, ok),
   fatal |-> FlushExecutes(a) /\ ~SendBatchOK(a, ok),
   group |-> IF FlushExecutes(a) /\ SendBatchOK(a, ok) THEN FlushGroup(a) ELSE <<>>,
   by |-> by]

NoFlush(a) == [ctx |-> a, fatal |-> FALSE, group |-> <<>>, by |-> "none"]
Fatal(a) == [ctx |-> a, fatal |-> TRUE, group |-> <<>>, by |-> "none"]

\* case *pglogrepl.CommitMessage
CommitResult(a, m, ok) ==
  LET b == [a EXCEPT !.commitLSN = m.lsn, !.commitTime = m.tx, !.txnInProgress = FALSE]
  IN [ctx |-> commit(a, m.lsn, m.tx, ok),
      fatal |-> CommitFlushes(b) /\ FlushExecutes(b) /\ ~SendBatchOK(b, ok),
      group |-> IF CommitFlushes(b) /\ FlushExecutes(b) /\ SendBatchOK(b, ok) THEN FlushGroup(b) ELSE <<>>,
      by |-> "commit"]

\* case *pglogrepl.InsertMessageV2
InsertResult(a, rels, m) ==
  IF ~RelationKnown(rels, m.rel) THEN Fatal(a)
  ELSE NoFlush(queue(a, InsertOp(rels[m.rel], m)))

\* The switch of processV2 on the decoded message, as far as applyCtx goes.
ProcessResult(a, rels, flag, m, ok) ==
  IF ~ParseOK(m, flag) THEN Fatal(a)
  ELSE CASE m.type = "Begin" -> NoFlush(begin(a))
         [] m.type = "Commit" -> CommitResult(a, m, ok)
         [] m.type = "Insert" -> InsertResult(a, rels, m)
         [] OTHER -> NoFlush(a)

\* ... as far as the relation cache goes.
ProcessRelations(rels, flag, m) ==
  IF ParseOK(m, flag) /\ m.type = "Relation" THEN RelationPut(rels, m) ELSE rels

\* A flag that StreamStop leaves set.
ProcessInStreamSticky(flag, m) == flag \/ m.type = "StreamStart"

\* ... and as far as *inStream goes.
ProcessInStream(flag, m) ==
  CASE m.type = "StreamStart" -> TRUE
    [] m.type = "StreamStop" -> FALSE
    [] OTHER -> flag

\* What a result does to the process and to the target.  The history taken
\* with a grouped write is the one at the start of its flush.
Apply(r, cmt, win) ==
  /\ applyCtx' = r.ctx
  /\ fatal' = r.fatal
  /\ IF r.group # <<>>
     THEN LET o == r.group[Len(r.group)] IN
          /\ lastGroup' = [n |-> lastGroup.n + 1, ops |-> r.group, by |-> r.by,
                           committed |-> {[tx |-> c.tx, lsn |-> c.lsn] : c \in cmt},
                           streamCommitted |-> streamCommitted,
                           window |-> win]
          /\ originMarker' = [lsn |-> o.lsn, ts |-> o.ts]
     ELSE UNCHANGED <<lastGroup, originMarker>>

\* case <-applyCtx.timer.C: applyCtx.flush(...)
BatcherTimer(ok) ==
  /\ ~fatal
  /\ applyCtx.timer.c
  /\ LET r == FlushResult([applyCtx EXCEPT !.timer.c = FALSE], ok, "timer") IN
     /\ Apply(r, committed, window)
     /\ window' = IF r.group # <<>> THEN {} ELSE window
  /\ UNCHANGED <<src, walDataCh, loopVars, relationsV2, inStream, run, legacyTimerChan,
                 startLSN, committed, streamCommitted, txOps, lastDef, handled>>

\* case walData := <-walDataCh: processV2(...)
BatcherProcess(ok) ==
  /\ ~fatal
  /\ walDataCh # <<>>
  /\ LET m == Head(walDataCh)
         parsed == ParseOK(m, inStream)
         r == ProcessResult(applyCtx, relationsV2, inStream, m, ok)
         queued == parsed /\ m.type = "Insert" /\ ~r.fatal
     IN
     /\ walDataCh' = Tail(walDataCh)
     /\ relationsV2' = ProcessRelations(relationsV2, inStream, m)
     /\ inStream' = ProcessInStream(inStream, m)
     /\ handled' = m.lsn
     /\ committed' = IF parsed /\ m.type = "Commit"
                     THEN committed \cup {[tx |-> m.tx, lsn |-> m.lsn, age |-> 0]}
                     ELSE committed
     /\ streamCommitted' = IF parsed /\ m.type = "StreamCommit"
                           THEN streamCommitted \cup {m.tx}
                           ELSE streamCommitted
     /\ Apply(r, committed', window)
     /\ txOps' = CASE parsed /\ m.type = "Begin" -> 0
                   [] queued /\ ~m.xidp -> txOps + 1
                   [] OTHER -> txOps
     /\ window' = CASE r.group # <<>> -> {}
                    [] parsed /\ m.type = "Commit" /\ ~r.fatal /\ txOps > 0 ->
                         window \cup {[tx |-> m.tx, n |-> txOps]}
                    [] OTHER -> window
     /\ lastDef' = IF parsed /\ m.type = "Relation"
                   THEN [lastDef EXCEPT ![m.rel] = m.ver] ELSE lastDef
  /\ UNCHANGED <<src, loopVars, run, legacyTimerChan, startLSN>>

\* --------------------------------------------------------------------- time
\* The runtime delivers an expired timer to timer.C.
TimerFire ==
  /\ ~fatal
  /\ applyCtx.timer.armed /\ applyCtx.timer.left = 0
  /\ applyCtx' = [applyCtx EXCEPT !.timer = [armed |-> FALSE, left |-> 0, c |-> TRUE]]
  /\ UNCHANGED <<src, walDataCh, loopVars, relationsV2, inStream, procVars, targetVars,
                 histVars>>

Min(a, b) == IF a < b THEN a ELSE b

\* One time unit passes on the batcher's clock.  An expired timer is delivered,
\* and its signal taken by the batcher's select, before the clock moves on:
\* goroutine scheduling is far faster than a time unit.
Tick ==
  /\ ~fatal
  /\ ~applyCtx.timer.c
  /\ ~(applyCtx.timer.armed /\ applyCtx.timer.left = 0)
  /\ applyCtx' = [applyCtx EXCEPT
        !.sinceLastCommit = Min(@ + 1, FlushThreshold + 1),
        !.timer.left = IF applyCtx.timer.armed THEN @ - 1 ELSE @]
  /\ committed' = {[c EXCEPT !.age = Min(@ + 1, FlushThreshold + 1)] : c \in committed}
  /\ UNCHANGED <<src, walDataCh, loopVars, relationsV2, inStream, procVars, targetVars,
                 streamCommitted, window, txOps, lastDef, handled>>

\* The consumer loop's clock moves in steps of half the standby timeout, and
\* one step further once the deadline is reached (After is strict).
StandbyStep(d) == IF d = 0 THEN 1 ELSE StandbyMessageTimeout \div 2

\* Time passes on the consumer loop's clock.  The two goroutines share no
\* instant: the loop reads the clock only for the standby deadline, the
\* batcher only for the flush policy, so the two clocks advance on their own.
StandbyTick ==
  /\ ~fatal
  /\ standbyIn >= 0
  /\ standbyIn' = standbyIn - StandbyStep(standbyIn)
  /\ UNCHANGED <<src, walDataCh, pc, xld, clientXLogPos, lastStatus, batcherVars,
                 procVars, targetVars, histVars>>

\* ------------------------------------------------------------------ restart
\* IdentifySystem reports the source's current position.
IdentifySystem(s) == s.lsn

\* The start position main hands to StartReplication, and the initial
\* clientXLogPos: sysident.XLogPos.  The replication origin is not read.
StartPosition(s, marker) == IdentifySystem(s)

\* After a fatal exit the program is started again: main runs from the top.
\* The target keeps its replication origin; the source has sent src.lsn.
Restart ==
  /\ fatal
  /\ run < MaxRestarts
  /\ run' = run + 1
  /\ fatal' = FALSE
  /\ src' = [src EXCEPT !.mode = "idle", !.tx = 0, !.stx = 0]
  /\ pc' = "recv"
  /\ xld' = [walStart |-> 0, walData |-> NoMsg]
  /\ startLSN' = StartPosition(src, originMarker)
  /\ clientXLogPos' = StartPosition(src, originMarker)
  /\ standbyIn' = StandbyMessageTimeout
  /\ lastStatus' = -1
  /\ walDataCh' = <<>>
  /\ applyCtx' = InitCtx
  /\ relationsV2' = [r \in RelIds |-> NoRel]
  /\ inStream' = FALSE
  /\ lastGroup' = NoGroup
  /\ committed' = {}
  /\ streamCommitted' = {}
  /\ window' = {}
  /\ txOps' = 0
  /\ lastDef' = [r \in RelIds |-> 0]
  /\ handled' = src.lsn
  /\ UNCHANGED <<legacyTimerChan, originMarker>>

\* The source's next data message, while the exploration's budget lasts.
SrcMsgs == IF src.lsn < MaxMsgs THEN NextMsgs(src) ELSE {}

\* The apply pipeline: data messages through walDataCh to the batcher, the
\* flush timer and the batcher's clock, fatal exits of the batcher and
\* the restart after them.  The standby deadline never comes into play (it
\* touches nothing the batcher reads).
Next ==
  \/ \E m \in SrcMsgs : RecvXLogData(m, m.lsn)
  \/ SendUnblocked
  \/ \E ok \in BOOLEAN : BatcherTimer(ok)
  \/ \E ok \in BOOLEAN : BatcherProcess(ok)
  \/ TimerFire
  \/ Tick
  \/ Restart

Spec == Init /\ [][Next]_vars

\* The apply pipeline with the consumer loop's own fatal exits (a receive
\* error, an ErrorResponse) added: the process can die at any message.
NextCrash ==
  \/ Next
  \/ RecvFatal

SpecCrash == Init /\ [][NextCrash]_vars

\* The positions a keepalive reports as the server's WAL end: none yet, or one
\* past what the source has sent.
KeepaliveEnds == {0, src.lsn + 1}

\* The start offsets of a data message: its own position, or 0 as on the
\* messages the server sends without one.
WALStarts(m) == {0, m.lsn}

\* The data messages of the consumer loop's exploration: plain transactions
\* on one relation with one definition and one row.
LoopMsgs ==
  {m \in SrcMsgs : /\ m.type \in {"Begin", "Commit", "Relation", "Insert"}
                   /\ m.rel \in {0, 1} /\ m.ver \in {0, 1}
                   /\ m.kinds \in {<<>>, <<"n", "t">>}}

\* The consumer loop: keepalives, data messages with their start offsets,
\* receive timeouts, the standby deadline and its clock, and the batcher
\* taking buffers off walDataCh.
NextLoop ==
  \/ \E l \in KeepaliveEnds, reply \in BOOLEAN : RecvKeepalive(l, reply)
  \/ \E m \in LoopMsgs : \E ws \in WALStarts(m) : RecvXLogData(m, ws)
  \/ SendUnblocked
  \/ RecvTimeout
  \/ StandbyTick
  \/ \E ok \in BOOLEAN : BatcherProcess(ok)

SpecLoop == Init /\ [][NextLoop]_vars

\* -------------------------------------------------------------------- C1
InsertsOf(ops) == {i \in 1..Len(ops) : ops[i].kind = "insert"}
TxOf(cmt) == {c.tx : c \in cmt}

\* C1: every write operation of an executed grouped write belongs to a
\* transaction whose CommitMessage the batcher had processed when the flush
\* started.
C1_NoUncommittedFlushed ==
  \A i \in InsertsOf(lastGroup.ops) : lastGroup.ops[i].tx \in TxOf(lastGroup.committed)

\* -------------------------------------------------------------------- C3
\* C3: an executed grouped write ends with exactly one origin operation, its
\* last, which carries the position and timestamp of the commit of the most
\* recently committed transaction with operations in the group; no operation
\* of a transaction committed later, or not at all, is in the group.
C3_MarkerOfLastCommitInGroup ==
  LET ops == lastGroup.ops
      n == Len(ops)
      txs == {ops[i].tx : i \in InsertsOf(ops)}
      cs == {c \in lastGroup.committed : c.tx \in txs}
  IN n > 0 =>
       /\ ops[n].kind = "origin"
       /\ InsertsOf(ops) = 1..(n - 1)
       /\ txs \subseteq TxOf(lastGroup.committed)
       /\ \E c \in cs : /\ ops[n].lsn = c.lsn
                        /\ ops[n].ts = c.tx
                        /\ \A d \in cs : d.lsn <= c.lsn

\* -------------------------------------------------------------------- C4
\* C4: the transactions that committed within the flush threshold of the
\* previous successful flush are covered by one grouped write: the flush
\* that follows them contains every operation each of them queued.
C4_OneFlushCoversAll ==
  \A w \in lastGroup.window :
     Cardinality({i \in InsertsOf(lastGroup.ops) : lastGroup.ops[i].tx = w.tx}) = w.n

\* -------------------------------------------------------------------- C5
\* The committed transactions with write operations in the pending batch.
PendingCommitted ==
  {c \in committed :
     \E i \in 1..Len(applyCtx.batch) :
        applyCtx.batch[i].kind = "insert" /\ applyCtx.batch[i].tx = c.tx}

Range(f) == {f[i] : i \in DOMAIN f}

\* C6: a queued write operation names the columns of kind null and text of
\* its tuple and none of kind unchangedToast.
C6_ToastColumnNotNamed ==
  \A i \in InsertsOf(applyCtx.batch) :
     LET op == applyCtx.batch[i] IN
     \A j \in 1..Len(op.tuple) :
        IF op.tuple[j] = "u" THEN op.schema[j] \notin Range(op.cols)
        ELSE op.schema[j] \in Range(op.cols)

\* -------------------------------------------------------------------- C7
\* C7: when the program starts with a position stored in the replication
\* origin, replication starts from that position.
C7_StartsAtOriginMarker ==
  [][(run' # run /\ originMarker.lsn # 0) => startLSN' = originMarker.lsn]_vars

\* -------------------------------------------------------------------- C8
\* C8: within a run, the batch goes from non-empty to empty only in a step in
\* which the target executes a grouped write, and every such step leaves the
\* batch empty and the last-flush time at now; a step that ends the run
\* leaves the batch non-empty if it was, and the last-flush time as it was;
\* after it nothing is executed and the batch stays as it is.
C8_ResetExactlyOnSuccess ==
  [][run' = run =>
       /\ (applyCtx.batch # <<>> /\ applyCtx'.batch = <<>>) => lastGroup'.n = lastGroup.n + 1
       /\ lastGroup'.n # lastGroup.n =>
             /\ lastGroup'.n = lastGroup.n + 1
             /\ applyCtx.batch # <<>>
             /\ applyCtx'.batch = <<>>
             /\ applyCtx'.sinceLastCommit = 0
             /\ ~fatal'
       /\ (~fatal /\ fatal') =>
             /\ (applyCtx'.batch = <<>>) <=> (applyCtx.batch = <<>>)
             /\ applyCtx'.sinceLastCommit = applyCtx.sinceLastCommit
             /\ lastGroup' = lastGroup
       /\ fatal => /\ applyCtx' = applyCtx
                   /\ lastGroup' = lastGroup
                   /\ originMarker' = originMarker]_vars

\* A grouped write failed after an earlier one had succeeded: the process is
\* dead and the batch still holds the failed group.
C8_Witness ==
  /\ fatal
  /\ lastGroup.n >= 1
  /\ applyCtx.batch # <<>>
  /\ applyCtx.batch[Len(applyCtx.batch)].kind = "origin"
  /\ InsertsOf(applyCtx.batch) # {}

\* -------------------------------------------------------------------- C10
\* C10: a write operation queued for a row of relation R is built from the
\* latest definition of R processed before it; the batcher processing an
\* insert for a relation without a definition ends the run and queues nothing.
C10_LastDefinitionWins ==
  [][/\ (/\ Len(applyCtx'.batch) = Len(applyCtx.batch) + 1
         /\ applyCtx'.batch[Len(applyCtx'.batch)].kind = "insert")
        => LET op == applyCtx'.batch[Len(applyCtx'.batch)] IN
           /\ lastDef[op.rel] # 0
           /\ op.schema = Schema(op.rel, lastDef[op.rel]).cols
           /\ op.table = <<Schema(op.rel, lastDef[op.rel]).ns,
                           Schema(op.rel, lastDef[op.rel]).name>>
           /\ \A j \in 1..Len(op.cols) : op.cols[j] = op.schema[j]
     /\ (/\ ~fatal /\ walDataCh # <<>>
         /\ Head(walDataCh).type = "Insert"
         /\ lastDef[Head(walDataCh).rel] = 0
         /\ handled' = Head(walDataCh).lsn /\ handled' # handled)
        => /\ fatal'
           /\ applyCtx'.batch = applyCtx.batch]_vars

\* The batch holds two rows of one relation queued under two definitions of
\* it: the second definition replaced the first.
C10_Witness ==
  \E i, j \in InsertsOf(applyCtx.batch) :
     /\ i < j
     /\ applyCtx.batch[i].rel = applyCtx.batch[j].rel
     /\ applyCtx.batch[i].schema # applyCtx.batch[j].schema
     /\ applyCtx.batch[j].schema = Schema(applyCtx.batch[j].rel, lastDef[applyCtx.batch[j].rel]).cols

\* -------------------------------------------------------------------- C2
\* C2: the tracked position never decreases within a run; a keepalive moves
\* it to its serverWALEnd when that is larger and leaves it otherwise; a data
\* message, once its buffer is in the queue, moves it to its start offset
\* when that is larger and leaves it otherwise; nothing else moves it.
C2_PositionMonotonic ==
  [][run' = run =>
       /\ clientXLogPos' >= clientXLogPos
       /\ \A l \in KeepaliveEnds, reply \in BOOLEAN :
             RecvKeepalive(l, reply) =>
                clientXLogPos' = (IF l <= clientXLogPos THEN clientXLogPos ELSE l)
       /\ Len(walDataCh') > Len(walDataCh) =>
             clientXLogPos' = (IF xld'.walStart <= clientXLogPos THEN clientXLogPos
                               ELSE xld'.walStart)
       /\ clientXLogPos' # clientXLogPos =>
             \/ \E l \in KeepaliveEnds, reply \in BOOLEAN : RecvKeepalive(l, reply)
             \/ Len(walDataCh') > Len(walDataCh)]_vars

\* The last data message had a start offset below the tracked position, which
\* an earlier message had raised and which stayed.
C2_Witness ==
  /\ pc = "recv"
  /\ xld.walData.type # "none"
  /\ xld.walStart < clientXLogPos
  /\ clientXLogPos = src.lsn + 1
  /\ src.lsn >= 2

\* -------------------------------------------------------------------- C9
\* C9: walDataCh never holds more than its capacity, and it holds exactly the
\* buffers received and not yet handled, in the order received: the batcher
\* takes them one by one in that order.
C9_QueueBoundedFifo ==
  LET sent == IF pc = "send" THEN src.lsn - 1 ELSE src.lsn IN
  /\ Len(walDataCh) <= WalDataChCap
  /\ handled <= sent
  /\ Len(walDataCh) = sent - handled
  /\ \A i \in 1..Len(walDataCh) : walDataCh[i].lsn = handled + i
  /\ pc = "send" => xld.walData.lsn = src.lsn

\* The consumer loop is blocked sending to a full queue of which the batcher
\* has already taken buffers.
C9_Witness ==
  /\ pc = "send"
  /\ Len(walDataCh) = WalDataChCap
  /\ handled >= 1

\* -------------------------------------------------------------------- C11
\* The buffer the batcher takes in this step, if it takes one.
Taken == IF walDataCh # <<>> /\ handled' # handled /\ run' = run
         THEN Head(walDataCh) ELSE NoMsg

\* C11: the streaming flag is false at the start; the batcher processing a
\* StreamStart sets it, processing a StreamStop clears it, and no other step
\* of a run changes it.
C11_FlagFollowsStreamBoundaries ==
  /\ ~inStream
  /\ [][run' = run =>
          CASE Taken.type = "StreamStart" -> inStream'
            [] Taken.type = "StreamStop" -> ~inStream'
            [] OTHER -> inStream' = inStream]_vars

\* The batcher has processed a StreamStart, rows decoded with the flag set,
\* and the StreamStop: the flag is false again.
C11_Witness ==
  /\ ~inStream /\ ~fatal
  /\ src.stx # 0 /\ src.mode = "idle"
  /\ handled = src.lsn
  /\ \E i \in InsertsOf(applyCtx.batch) : applyCtx.batch[i].streamed

\* -------------------------------------------------------------------- C12
\* C12: the iteration after a keepalive with the reply flag sends a status
\* update with the tracked position and sets the deadline to now plus the
\* standby timeout, before it receives again.
C12_ReplyForcesStatus ==
  [][\A l \in KeepaliveEnds :
        RecvKeepalive(l, TRUE) =>
           /\ lastStatus' = clientXLogPos'
           /\ standbyIn' = StandbyMessageTimeout
           /\ pc' = "recv"]_vars

\* A status update carried the position a keepalive had reported, sent with
\* the deadline still ahead on the consumer loop's clock.
C12_Witness ==
  /\ pc = "recv"
  /\ lastStatus = clientXLogPos
  /\ clientXLogPos = src.lsn + 1
  /\ src.lsn >= 1
  /\ standbyIn = StandbyMessageTimeout

\* -------------------------------------------------------------------- C13
\* C13: no grouped write is executed on the timer's signal while a
\* transaction is in progress.
C13_NoTimerFlushInTransaction ==
  [][(run' = run /\ lastGroup'.n # lastGroup.n /\ lastGroup'.by = "timer")
        => ~applyCtx.txnInProgress]_vars

\* -------------------------------------------------------------------- C14
\* C14: every operation of a streamed transaction in an executed grouped
\* write belongs to a transaction whose StreamCommit the batcher had
\* processed when the flush started.
C14_StreamedOpsWaitForStreamCommit ==
  \A i \in InsertsOf(lastGroup.ops) :
     lastGroup.ops[i].streamed => lastGroup.ops[i].tx \in lastGroup.streamCommitted

\* -------------------------------------------------------------------- C15
\* C15: the step that processes a Commit records its position and timestamp
\* and ends the transaction; with more than the threshold since the last
\* flush it flushes at once (a grouped write ending with that commit's origin
\* operation, or the fatal exit; nothing when the batch is empty); otherwise
\* it executes nothing, keeps the batch and arms the timer a full threshold
\* ahead.
C15_CommitFlushesOrDefers ==
  [][LET m == Taken IN
     (m.type = "Commit") =>
        /\ applyCtx'.commitLSN = m.lsn
        /\ applyCtx'.commitTime = m.tx
        /\ ~applyCtx'.txnInProgress
        /\ IF applyCtx.sinceLastCommit > FlushThreshold
           THEN IF applyCtx.batch = <<>>
                THEN /\ lastGroup' = lastGroup
                     /\ applyCtx'.batch = <<>>
                     /\ applyCtx'.timer = applyCtx.timer
                     /\ ~fatal'
                ELSE \/ fatal' /\ lastGroup' = lastGroup /\ originMarker' = originMarker
                     \/ /\ ~fatal'
                        /\ lastGroup'.n = lastGroup.n + 1
                        /\ lastGroup'.ops = Append(applyCtx.batch, OriginOp(m.lsn, m.tx))
                        /\ originMarker' = [lsn |-> m.lsn, ts |-> m.tx]
                        /\ applyCtx'.batch = <<>>
           ELSE /\ lastGroup' = lastGroup
                /\ originMarker' = originMarker
                /\ ~fatal'
                /\ applyCtx'.batch = applyCtx.batch
                /\ applyCtx'.timer.armed
                /\ applyCtx'.timer.left = FlushThreshold]_vars

\* Two inserts and their Commit were processed within the threshold: nothing
\* was executed, the batch holds the two operations, the timer is armed a
\* full threshold ahead and the pending marker is the commit's.
C15_Witness ==
  /\ ~fatal /\ ~applyCtx.txnInProgress
  /\ Len(applyCtx.batch) = 2
  /\ InsertsOf(applyCtx.batch) = {1, 2}
  /\ \E c \in committed : /\ c.age = 0
                          /\ c.lsn = applyCtx.commitLSN
                          /\ c.lsn = handled
                          /\ \A i \in {1, 2} : applyCtx.batch[i].tx = c.tx
  /\ applyCtx.timer.armed /\ applyCtx.timer.left = FlushThreshold
  /\ lastGroup = NoGroup

\* -------------------------------------------------------------------- C16
\* C16: a flush with the batch empty, on the timer's signal or from a Commit
\* past the threshold, executes nothing and leaves the batch, the pending
\* marker and the last-flush time as they are.
C16_EmptyFlushNoOp ==
  [][/\ (/\ run' = run /\ handled' = handled
         /\ applyCtx.timer.c /\ ~applyCtx'.timer.c
         /\ applyCtx.batch = <<>>)
        => /\ applyCtx' = [applyCtx EXCEPT !.timer.c = FALSE]
           /\ lastGroup' = lastGroup
           /\ originMarker' = originMarker
           /\ ~fatal'
     /\ (/\ Taken.type = "Commit"
         /\ applyCtx.sinceLastCommit > FlushThreshold
         /\ applyCtx.batch = <<>>)
        => /\ applyCtx'.batch = <<>>
           /\ applyCtx'.sinceLastCommit = applyCtx.sinceLastCommit
           /\ applyCtx'.commitLSN = Taken.lsn
           /\ lastGroup' = lastGroup
           /\ originMarker' = originMarker
           /\ ~fatal']_vars

\* The start-up timer expired and its signal was taken before any buffer
\* arrived: the batch is empty, nothing was executed, and the time since the
\* last flush has kept running.
C16_Witness ==
  /\ run = 0 /\ handled = 0 /\ ~fatal
  /\ ~applyCtx.timer.armed /\ ~applyCtx.timer.c
  /\ applyCtx.batch = <<>>
  /\ applyCtx.sinceLastCommit >= FlushThreshold
  /\ lastGroup = NoGroup
  /\ originMarker = [lsn |-> 0, ts |-> 0]

C17_DisarmedAfterFlush ==
  [][(run' = run /\ lastGroup'.n # lastGroup.n) => ~applyCtx'.timer.armed]_vars

\* -------------------------------------------------------------------- C18
\* C18: the consumer loop is either in the receive or in the channel send; a
\* data message that arrives with the queue full leaves it in the send with
\* nothing else done; while it is there and the queue is full it receives
\* nothing, moves no position and sends no status update, whatever the
\* deadline; it leaves the send only by queuing that message's buffer into a
\* queue with room.
C18_Backpressure ==
  /\ [](pc \in {"recv", "send"})
  /\ [][/\ (pc = "recv" /\ src' # src /\ Len(walDataCh) >= WalDataChCap)
           => /\ pc' = "send"
              /\ UNCHANGED <<walDataCh, clientXLogPos, lastStatus, standbyIn>>
        /\ (pc = "send" /\ Len(walDataCh) >= WalDataChCap)
           => UNCHANGED <<pc, src, xld, clientXLogPos, lastStatus>>
        /\ (pc = "send" /\ pc' # "send")
           => /\ Len(walDataCh) < WalDataChCap
              /\ walDataCh' = Append(walDataCh, xld.walData)
              /\ UNCHANGED <<src, xld>>]_vars

\* The consumer loop is blocked on the full queue, the standby deadline has
\* passed meanwhile, and no status update has been sent.
C18_Witness ==
  /\ pc = "send"
  /\ Len(walDataCh) = WalDataChCap
  /\ standbyIn < 0
  /\ lastStatus = -1

\* -------------------------------------------------------------------- C19
\* C19: when a status update is sent that reports a position at or past the
\* start offset of the data message received last, an insert of a known
\* relation, the target has executed the operation decoded from it.
C19_StatusNotAheadOfApplied ==
  [][(/\ run' = run
      /\ lastStatus' # lastStatus
      /\ xld'.walData.type = "Insert"
      /\ lastDef[xld'.walData.rel] # 0
      /\ xld'.walStart > 0
      /\ lastStatus' >= xld'.walStart)
     => \E i \in InsertsOf(lastGroup'.ops) : lastGroup'.ops[i].lsn = xld'.walData.lsn]_vars

\* -------------------------------------------------------------------- C20
\* C20: every queued insert names as many columns as it has placeholders and
\* as it has argument values.
C20_InsertWellFormed ==
  \A i \in InsertsOf(applyCtx.batch) :
     /\ Len(applyCtx.batch[i].cols) = applyCtx.batch[i].placeholders
     /\ applyCtx.batch[i].placeholders = Len(applyCtx.batch[i].vals)

====
